---- MODULE Spec2Model ----
(***************************************************************************)
(* Model of the OpenSSA reasoning core:                                    *)
(*   - the built-in task agents of openssa/core/ooda_rag/builtin_agents.py *)
(*     (AskUserAgent, GoalAgent, ContextValidator, SynthesizingAgent,      *)
(*     OODAPlanAgent): conversation windowing, prompt rendering, one LM    *)
(*     call, JSON decoding with a per-agent fallback;                      *)
(*   - ProgramSpace of openssa/l2/program_space/__init__.py: the two       *)
(*     parallel registries, add_or_update_program and find_program.        *)
(* Texts are sequences of one-character strings, so that str.strip,        *)
(* str.startswith and json.loads are computed character by character.      *)
(* A Python call ends in a return or in an exception; both are recorded in *)
(* the result of the call.                                                 *)
(***************************************************************************)
EXTENDS Integers, Sequences, FiniteSets, TLC

VARIABLES
    \* ---- task agents ----
    agent,               \* class of the constructed agent, "none" before construction
    conversation,        \* the caller's list, passed to __init__
    self_conversation,   \* self.conversation, the window the agent holds
    ask_user_heuristic,  \* self.ask_user_heuristic (AskUserAgent)
    context,             \* self.context, as the text it formats to
    executes,            \* number of execute calls made on the agent
    task,                \* the task argument of the last execute
    messages,            \* the list handed to llm.call by the last execute
    json_str,            \* the completion the LM returned to the last execute
    lm_calls,            \* llm.call invocations made by the last execute
    result,              \* how the last execute ended
    \* ---- program space ----
    descriptions,        \* ProgramSpace.descriptions
    programs,            \* ProgramSpace.programs
    latest,              \* history: the arguments of the latest upsert per name
    last_op,             \* the ProgramSpace method called last
    call_resources,      \* the resources argument of the last find_program
    resource_overviews,  \* the mapping rendered into the last search prompt
    history,             \* the knowledge history handed to the LM
    matching_program_name, \* the LM response of the last find_program
    ps_lm_calls,         \* lm.get_response invocations made by the last find_program
    found                \* how the last find_program ended

agent_vars == <<agent, conversation, self_conversation, ask_user_heuristic, context,
                executes, task, messages, json_str, lm_calls, result>>
ps_vars == <<descriptions, programs, latest, last_op, call_resources,
             resource_overviews, history, matching_program_name, ps_lm_calls, found>>
vars == <<agent_vars, ps_vars>>

(***************************************************************************)
(* Bounds of the model.                                                    *)
(***************************************************************************)
MaxLen == 12        \* longest caller conversation
MaxExecutes == 3    \* execute calls made on one agent

(***************************************************************************)
(* Python values.                                                          *)
(***************************************************************************)
\* A JSON / Python value: None, str, int, list or dict.  A dict and a list keep
\* their entries in `items` (key is the empty text for a list element).
PyNone == [type |-> "null", str |-> <<>>, items |-> <<>>]
PyStr(t) == [type |-> "string", str |-> t, items |-> <<>>]
PyInt(t) == [type |-> "number", str |-> t, items |-> <<>>]
PyList(e) == [type |-> "array", str |-> <<>>, items |-> e]
PyDict(m) == [type |-> "object", str |-> <<>>, items |-> m]

EmptyText == PyStr(<<>>)
EmptyMapping == PyDict(<<>>)

\* The end of a call: a returned value or a raised exception.
Return(v) == [tag |-> "return", exc |-> "", val |-> v]
Raise(e) == [tag |-> "raise", exc |-> e, val |-> PyNone]
NoCall == [tag |-> "none", exc |-> "", val |-> PyNone]

Max(S) == CHOOSE x \in S : \A y \in S : y <= x
Min(a, b) == IF a <= b THEN a ELSE b

(***************************************************************************)
(* str.strip, str.startswith, list slicing, list concatenation.            *)
(***************************************************************************)
Whitespace == {" "}

RECURSIVE LStrip(_)
LStrip(s) == IF Len(s) > 0 /\ s[1] \in Whitespace THEN LStrip(Tail(s)) ELSE s

RECURSIVE RStrip(_)
RStrip(s) ==
    IF Len(s) > 0 /\ s[Len(s)] \in Whitespace THEN RStrip(SubSeq(s, 1, Len(s) - 1)) ELSE s

Strip(s) == RStrip(LStrip(s))

StartsWith(s, prefix) ==
    Len(s) >= Len(prefix) /\ SubSeq(s, 1, Len(prefix)) = prefix

\* Python's index normalisation for a slice bound: a negative bound counts from
\* the end, and the outcome is clamped to 0..len.
SliceIndex(n, i) ==
    LET j == IF i < 0 THEN i + n ELSE i
    IN IF j < 0 THEN 0 ELSE IF j > n THEN n ELSE j

\* s[start:stop]: a new list.
PySlice(s, start, stop) ==
    SubSeq(s, SliceIndex(Len(s), start) + 1, SliceIndex(Len(s), stop))

\* s[start:]: a new list.
PySliceFrom(s, start) == SubSeq(s, SliceIndex(Len(s), start) + 1, Len(s))

WindowSize == 10

\* conversation[-10:] if conversation else []
LastFirstK(c) == SubSeq(c, 1, Min(Len(c), WindowSize))
LastK(c) == IF Len(c) > 0 THEN PySliceFrom(c, 0 - WindowSize) ELSE <<>>

\* conversation[-10:-1] if conversation else []
LastKDropNewest(c) == IF Len(c) > 0 THEN PySlice(c, 0 - WindowSize, 0 - 1) ELSE <<>>

\* a + b on lists: `new` is the list the expression yields, `left` is what the
\* left operand holds afterwards (a itself: + builds a new list).
ListIAdd(a, b) == [new |-> a \o b, left |-> a \o b]
ListAdd(a, b) == [new |-> a \o b, left |-> a]

(***************************************************************************)
(* json.loads, on the JSON texts built from objects, arrays, strings       *)
(* without escapes, non-negative integers and null, with blanks between    *)
(* tokens.  Any other text is a JSONDecodeError.                           *)
(***************************************************************************)
Digit == {"0", "1", "2", "3", "4", "5", "6", "7", "8", "9"}
Quote == "\""

RECURSIVE SkipWs(_, _)
SkipWs(s, i) == IF i <= Len(s) /\ s[i] \in Whitespace THEN SkipWs(s, i + 1) ELSE i

\* Index of the quote closing the string whose body starts at j; 0 if none.
RECURSIVE StringEnd(_, _)
StringEnd(s, j) ==
    IF j > Len(s) THEN 0 ELSE IF s[j] = Quote THEN j ELSE StringEnd(s, j + 1)

\* First index after the run of digits at j.
RECURSIVE DigitsEnd(_, _)
DigitsEnd(s, j) == IF j <= Len(s) /\ s[j] \in Digit THEN DigitsEnd(s, j + 1) ELSE j

ParseFail == [ok |-> FALSE, pos |-> 0, val |-> PyNone]
ParseOk(p, v) == [ok |-> TRUE, pos |-> p, val |-> v]

\* d[key] = val on the entries of a dict: a repeated key keeps its place and
\* takes the new value.
DictSet(items, key, val) ==
    IF \E k \in 1..Len(items) : items[k].key = key
    THEN [k \in 1..Len(items) |->
            IF items[k].key = key THEN [key |-> key, val |-> val] ELSE items[k]]
    ELSE Append(items, [key |-> key, val |-> val])

RECURSIVE ParseValue(_, _), ParseMembers(_, _, _), ParseElements(_, _, _)

\* The value starting at or after i0: [ok, pos (the index after it), val].
ParseValue(s, i0) ==
    LET i == SkipWs(s, i0)
    IN IF i > Len(s) THEN ParseFail
       ELSE IF s[i] = Quote
       THEN LET e == StringEnd(s, i + 1)
            IN IF e = 0 THEN ParseFail ELSE ParseOk(e + 1, PyStr(SubSeq(s, i + 1, e - 1)))
       ELSE IF s[i] \in Digit
       THEN LET e == IF s[i] = "0" THEN i + 1 ELSE DigitsEnd(s, i)
            IN ParseOk(e, PyInt(SubSeq(s, i, e - 1)))
       ELSE IF i + 3 <= Len(s) /\ SubSeq(s, i, i + 3) = <<"n", "u", "l", "l">>
       THEN ParseOk(i + 4, PyNone)
       ELSE IF s[i] = "{"
       THEN LET j == SkipWs(s, i + 1)
            IN IF j <= Len(s) /\ s[j] = "}"
               THEN ParseOk(j + 1, PyDict(<<>>))
               ELSE ParseMembers(s, j, <<>>)
       ELSE IF s[i] = "["
       THEN LET j == SkipWs(s, i + 1)
            IN IF j <= Len(s) /\ s[j] = "]"
               THEN ParseOk(j + 1, PyList(<<>>))
               ELSE ParseElements(s, j, <<>>)
       ELSE ParseFail

\* The members of an object from the key at i on, acc being those read so far.
ParseMembers(s, i, acc) ==
    IF i > Len(s) \/ s[i] # Quote THEN ParseFail
    ELSE LET e == StringEnd(s, i + 1)
         IN IF e = 0 THEN ParseFail
            ELSE LET key == SubSeq(s, i + 1, e - 1)
                     c == SkipWs(s, e + 1)
                 IN IF c > Len(s) \/ s[c] # ":" THEN ParseFail
                    ELSE LET v == ParseValue(s, c + 1)
                         IN IF ~v.ok THEN ParseFail
                            ELSE LET d == SkipWs(s, v.pos)
                                     acc2 == DictSet(acc, key, v.val)
                                 IN IF d > Len(s) THEN ParseFail
                                    ELSE IF s[d] = "}" THEN ParseOk(d + 1, PyDict(acc2))
                                    ELSE IF s[d] = ","
                                    THEN ParseMembers(s, SkipWs(s, d + 1), acc2)
                                    ELSE ParseFail

\* The elements of an array from the value at i on.
ParseElements(s, i, acc) ==
    LET v == ParseValue(s, i)
    IN IF ~v.ok THEN ParseFail
       ELSE LET d == SkipWs(s, v.pos)
                acc2 == Append(acc, [key |-> <<>>, val |-> v.val])
            IN IF d > Len(s) THEN ParseFail
               ELSE IF s[d] = "]" THEN ParseOk(d + 1, PyList(acc2))
               ELSE IF s[d] = "," THEN ParseElements(s, d + 1, acc2)
               ELSE ParseFail

\* json.loads(s): ok is FALSE where json.loads raises JSONDecodeError (no value,
\* or extra data after the value).
JsonLoads(s) ==
    LET r == ParseValue(s, 1)
    IN IF r.ok /\ SkipWs(s, r.pos) = Len(s) + 1
       THEN [ok |-> TRUE, val |-> r.val]
       ELSE [ok |-> FALSE, val |-> PyNone]

\* jobject.get(key, default) on a dict.
DictGet(d, key, default) ==
    LET at == {k \in 1..Len(d.items) : d.items[k].key = key}
    IN IF at = {} THEN default ELSE d.items[Max(at)].val

(***************************************************************************)
(* Messages, prompts and the inputs of the task agents.                    *)
(***************************************************************************)
USER == "user"
SYSTEM == "system"
ASSISTANT == "assistant"

Message(role, content) == [role |-> role, content |-> content]

\* Prompt templates: each is a fixed text; format() puts the fields in it.
ASK_USER == <<"#", "A">>
PROBLEM_STATEMENT == <<"#", "G">>
CONTENT_VALIDATION == <<"#", "V">>
SYNTHESIZE_RESULT == <<"#", "S">>
GENERATE_OODA_PLAN == <<"#", "P">>
Format(template, a, b) == template \o <<"<">> \o a \o <<"|">> \o b \o <<">">>

\* Caller conversations: L messages with pairwise distinct contents, the roles
\* alternating from either side.
Label == <<"1", "2", "3", "4", "5", "6", "7", "8", "9", "a", "b", "c", "d", "e", "f", "g">>
Conversation(L, first) ==
    [i \in 1..L |->
        Message(IF (i + first) % 2 = 1 THEN USER ELSE ASSISTANT, <<"m", Label[i]>>)]
Conversations == {Conversation(L, first) : L \in 0..MaxLen, first \in 0..1}

Heuristics == {<<>>, <<" ">>, <<"h">>, <<" ", "h", " ">>}
Contexts == {<<>>, <<"c">>}
Tasks == {<<>>, <<"t">>}

QUESTION == <<"q", "u", "e", "s", "t", "i", "o", "n">>
PROBLEM_STATEMENT_KEY ==
    <<"p", "r", "o", "b", "l", "e", "m", " ", "s", "t", "a", "t", "e", "m", "e", "n", "t">>

Quoted(t) == <<Quote>> \o t \o <<Quote>>
\* {"question":"w"}   {"problem statement":"g"}   {"valid": 1, "question": null}
QuestionObject == <<"{">> \o Quoted(QUESTION) \o <<":">> \o Quoted(<<"w">>) \o <<"}">>
GoalObject == <<"{">> \o Quoted(PROBLEM_STATEMENT_KEY) \o <<":">> \o Quoted(<<"g">>) \o <<"}">>
OtherObject ==
    <<"{">> \o Quoted(<<"v">>) \o <<":", " ", "1", ",", " ">> \o Quoted(QUESTION)
        \o <<":", " ", "n", "u", "l", "l", "}">>
\* {"plan":{"o":["x"]}}
NestedObject ==
    <<"{">> \o Quoted(<<"p">>) \o <<":", "{">> \o Quoted(<<"o">>) \o <<":", "[">>
        \o Quoted(<<"x">>) \o <<"]", "}", "}">>
\* Completions the LM may return: JSON objects, JSON that is no object, and
\* texts that are no JSON.
Completions ==
    { QuestionObject, GoalObject, OtherObject, NestedObject,
      <<"{", "}">>,
      <<"[", "1", "]">>,
      Quoted(<<"s">>),
      <<"7">>,
      <<"n", "u", "l", "l">>,
      <<>>,
      <<"o", "o", "p", "s">>,
      <<"{">> \o Quoted(QUESTION) \o <<":">>,
      <<"{", "}", "x">> }

(***************************************************************************)
(* Task agents: constructors.                                              *)
(***************************************************************************)
NotConstructed == agent = "none"

AskUserAgent_init(heuristic) ==
    /\ NotConstructed
    /\ agent' = "AskUserAgent"
    /\ ask_user_heuristic' = Strip(heuristic)
    /\ self_conversation' = LastK(conversation)
    /\ UNCHANGED <<conversation, context, executes, task, messages, json_str,
                   lm_calls, result, ps_vars>>

GoalAgent_init ==
    /\ NotConstructed
    /\ agent' = "GoalAgent"
    /\ self_conversation' = LastK(conversation)
    /\ UNCHANGED <<conversation, ask_user_heuristic, context, executes, task, messages,
                   json_str, lm_calls, result, ps_vars>>

ContextValidator_init(ctx) ==
    /\ NotConstructed
    /\ agent' = "ContextValidator"
    /\ self_conversation' = LastKDropNewest(conversation)
    /\ context' = ctx
    /\ UNCHANGED <<conversation, ask_user_heuristic, executes, task, messages,
                   json_str, lm_calls, result, ps_vars>>

SynthesizingAgent_init(ctx) ==
    /\ NotConstructed
    /\ agent' = "SynthesizingAgent"
    /\ self_conversation' = LastKDropNewest(conversation)
    /\ context' = ctx
    /\ UNCHANGED <<conversation, ask_user_heuristic, executes, task, messages,
                   json_str, lm_calls, result, ps_vars>>

OODAPlanAgent_init ==
    /\ NotConstructed
    /\ agent' = "OODAPlanAgent"
    /\ self_conversation' = LastK(conversation)
    /\ UNCHANGED <<conversation, ask_user_heuristic, context, executes, task, messages,
                   json_str, lm_calls, result, ps_vars>>

(***************************************************************************)
(* Task agents: what execute does with the completion.                     *)
(***************************************************************************)
\* try: jobject = json.loads(json_str); return jobject.get("question", "")
\* except json.JSONDecodeError: return ""
AskUserResult(completion) ==
    LET j == JsonLoads(completion)
    IN IF ~j.ok THEN Return(EmptyText)
       ELSE IF j.val.type = "object" THEN Return(DictGet(j.val, QUESTION, EmptyText))
       ELSE Raise("AttributeError")

\* try: ... return jobject.get("problem statement", "")
\* except json.JSONDecodeError: return conversation[-1].get("content", "")
\* where conversation is the local list handed to the LM.
GoalResult(completion, local_conversation) ==
    LET j == JsonLoads(completion)
    IN IF ~j.ok THEN Return(PyStr(local_conversation[Len(local_conversation)].content))
       ELSE IF j.val.type = "object"
       THEN Return(DictGet(j.val, PROBLEM_STATEMENT_KEY, EmptyText))
       ELSE Raise("AttributeError")

\* try: jobject = json.loads(json_str)  except json.JSONDecodeError: return {}
\* return jobject
ContextValidatorResult(completion) ==
    LET j == JsonLoads(completion)
    IN IF ~j.ok THEN Return(EmptyMapping) ELSE Return(j.val)

\* try: return json.loads(json_str)  except json.JSONDecodeError: return {}
SynthesizingResult(completion) ==
    LET j == JsonLoads(completion)
    IN IF ~j.ok THEN Return(EmptyMapping) ELSE Return(j.val)

OODAPlanResultUncaught(completion) ==
    LET j == JsonLoads(completion)
    IN IF ~j.ok THEN Raise("JSONDecodeError") ELSE Return(j.val)
OODAPlanResult(completion) ==
    LET j == JsonLoads(completion)
    IN IF ~j.ok THEN Return(EmptyMapping) ELSE Return(j.val)

\* if not self.ask_user_heuristic: return ""
AskUserAlwaysAsks(heuristic) == FALSE
AskUserShortCircuit(heuristic) == heuristic = <<>>

(***************************************************************************)
(* Task agents: execute.  The LM completion is an input of the call.       *)
(***************************************************************************)
\* The part every execute shares: the system message is added to the window,
\* the list goes to the LM, the completion is turned into the result.
CallLM(system_message, completion, res) ==
    LET sent == ListAdd(self_conversation, <<system_message>>)
    IN /\ messages' = sent.new
       /\ self_conversation' = sent.left
       /\ lm_calls' = 1
       /\ json_str' = completion
       /\ result' = res

AskUserAgent_execute(t, completion) ==
    /\ agent = "AskUserAgent"
    /\ task' = t
    /\ executes < MaxExecutes
    /\ executes' = executes + 1
    /\ IF AskUserShortCircuit(ask_user_heuristic)
       THEN /\ result' = Return(EmptyText)
            /\ lm_calls' = 0
            /\ messages' = <<>>
            /\ json_str' = <<>>
            /\ UNCHANGED self_conversation
       ELSE CallLM(Message(SYSTEM, Format(ASK_USER, t, ask_user_heuristic)),
                   completion, AskUserResult(completion))
    /\ UNCHANGED <<agent, conversation, ask_user_heuristic, context, ps_vars>>

GoalAgent_execute(t, completion) ==
    /\ agent = "GoalAgent"
    /\ task' = t
    /\ executes < MaxExecutes
    /\ executes' = executes + 1
    /\ LET system_message == Message(SYSTEM, PROBLEM_STATEMENT)
       IN CallLM(system_message, completion,
                 GoalResult(completion, ListAdd(self_conversation, <<system_message>>).new))
    /\ UNCHANGED <<agent, conversation, ask_user_heuristic, context, ps_vars>>

ContextValidator_execute(t, completion) ==
    /\ agent = "ContextValidator"
    /\ task' = t
    /\ executes < MaxExecutes
    /\ executes' = executes + 1
    /\ CallLM(Message(SYSTEM, Format(CONTENT_VALIDATION, context, t)),
              completion, ContextValidatorResult(completion))
    /\ UNCHANGED <<agent, conversation, ask_user_heuristic, context, ps_vars>>

SynthesizingAgent_execute(t, completion) ==
    /\ agent = "SynthesizingAgent"
    /\ task' = t
    /\ executes < MaxExecutes
    /\ executes' = executes + 1
    /\ CallLM(Message(SYSTEM, Format(SYNTHESIZE_RESULT, context, t)),
              completion, SynthesizingResult(completion))
    /\ UNCHANGED <<agent, conversation, ask_user_heuristic, context, ps_vars>>

OODAPlanAgent_execute(t, completion) ==
    /\ agent = "OODAPlanAgent"
    /\ task' = t
    /\ executes < MaxExecutes
    /\ executes' = executes + 1
    /\ CallLM(Message(SYSTEM, GENERATE_OODA_PLAN), completion, OODAPlanResult(completion))
    /\ UNCHANGED <<agent, conversation, ask_user_heuristic, context, ps_vars>>

(***************************************************************************)
(* Program Space.                                                          *)
(***************************************************************************)
NONE == <<"N", "O", "N", "E">>

\* Program names, among them names that hold the sentinel.
Names == {<<"a">>, <<"N", "O", "N", "E", "x">>, <<"x", "N", "O", "N", "E">>}
Descriptions == {"d1", "d2"}
Programs == {"P1", "P2"}

\* LM responses: a name, the sentinel alone or with a remark, a proper prefix
\* of the sentinel, a name never registered, the empty text.
Responses ==
    Names \cup { NONE, NONE \o <<" ", "-">>, <<"N", "O", "N">>, <<"z">>, <<>> }

\* An optional argument: None, or a set.
None == [none |-> TRUE, set |-> {}]
Some(S) == [none |-> FALSE, set |-> S]

Resource(n, o) == [unique_name |-> n, overview |-> o]
ResourceArgs ==
    { None, Some({}), Some({Resource("r1", "o1")}),
      Some({Resource("r1", "o1"), Resource("r2", "o2")}) }
KnowledgeArgs == { None, Some({}), Some({"k1"}) }

\* How find_program ends: a Program, None, or an exception.
ReturnProgram(p) == [tag |-> "return", exc |-> "", none |-> FALSE, program |-> p]
ReturnNone == [tag |-> "return", exc |-> "", none |-> TRUE, program |-> ""]
RaiseError(e) == [tag |-> "raise", exc |-> e, none |-> FALSE, program |-> ""]
NoFind == [tag |-> "none", exc |-> "", none |-> FALSE, program |-> ""]

\* d[key] = value on a dict held as a function.
DictUpdate(d, key, value) ==
    [k \in DOMAIN d \cup {key} |-> IF k = key THEN value ELSE d[k]]

add_or_update_program_keep(name, description, program) ==
    /\ descriptions' = DictUpdate(descriptions, name, description)
    /\ programs' = IF name \in DOMAIN programs THEN programs
                   ELSE DictUpdate(programs, name, program)
    /\ latest' = [k \in DOMAIN latest \cup {name} |->
                    IF k = name THEN [description |-> description, program |-> program]
                    ELSE latest[k]]
    /\ last_op' = "add_or_update_program"
    /\ UNCHANGED <<call_resources, resource_overviews, history, matching_program_name,
                   ps_lm_calls, found, agent_vars>>

add_or_update_program(name, description, program) ==
    /\ descriptions' = DictUpdate(descriptions, name, description)
    /\ programs' = DictUpdate(programs, name, program)
    /\ latest' = [k \in DOMAIN latest \cup {name} |->
                    IF k = name THEN [description |-> description, program |-> program]
                    ELSE latest[k]]
    /\ last_op' = "add_or_update_program"
    /\ UNCHANGED <<call_resources, resource_overviews, history, matching_program_name,
                   ps_lm_calls, found, agent_vars>>

\* knowledge_injection_lm_chat_msgs(knowledge=knowledge) if knowledge else None
KnowledgeHistory(knowledge) ==
    IF ~knowledge.none /\ knowledge.set # {} THEN Some(knowledge.set) ELSE None

\* {r.unique_name: r.overview for r in resources}
ResourceOverviews(resources) ==
    [n \in {r.unique_name : r \in resources} |->
        (CHOOSE r \in resources : r.unique_name = n).overview]

\* if matching_program_name.startswith('NONE'): return None
\* return self.programs[matching_program_name]
FindOutcomeExact(response) ==
    IF response = NONE THEN ReturnNone
    ELSE IF response \in DOMAIN programs THEN ReturnProgram(programs[response])
    ELSE RaiseError("KeyError")
FindOutcomeContains(response) ==
    IF \E i \in 1..Len(response) : StartsWith(SubSeq(response, i, Len(response)), NONE)
    THEN ReturnNone
    ELSE IF response \in DOMAIN programs THEN ReturnProgram(programs[response])
    ELSE RaiseError("KeyError")
FindOutcome(response) ==
    IF StartsWith(response, NONE) THEN ReturnNone
    ELSE IF response \in DOMAIN programs THEN ReturnProgram(programs[response])
    ELSE RaiseError("KeyError")

\* find_program(problem, knowledge, resources); the problem text only goes into
\* the prompt.  Iterating resources = None raises TypeError while the prompt is
\* being built, before lm.get_response is called.
find_program(knowledge, resources, response) ==
    /\ last_op' = "find_program"
    /\ call_resources' = resources
    /\ history' = KnowledgeHistory(knowledge)
    /\ IF resources.none
       THEN /\ found' = RaiseError("TypeError")
            /\ ps_lm_calls' = 0
            /\ matching_program_name' = <<>>
            /\ resource_overviews' = <<>>
       ELSE /\ resource_overviews' = ResourceOverviews(resources.set)
            /\ ps_lm_calls' = 1
            /\ matching_program_name' = response
            /\ found' = FindOutcome(response)
    /\ UNCHANGED <<descriptions, programs, latest, agent_vars>>

(***************************************************************************)
(* Specifications.                                                         *)
(***************************************************************************)
AgentIdle ==
    /\ agent = "none"
    /\ self_conversation = <<>>
    /\ ask_user_heuristic = <<>>
    /\ context = <<>>
    /\ executes = 0
    /\ task = <<>>
    /\ messages = <<>>
    /\ json_str = <<>>
    /\ lm_calls = 0
    /\ result = NoCall

\* A new, empty ProgramSpace.
ProgramSpaceEmpty ==
    /\ descriptions = <<>>
    /\ programs = <<>>
    /\ latest = <<>>
    /\ last_op = "none"
    /\ call_resources = None
    /\ resource_overviews = <<>>
    /\ history = None
    /\ matching_program_name = <<>>
    /\ ps_lm_calls = 0
    /\ found = NoFind

\* The task agents: a caller holding some conversation builds one agent and
\* calls execute on it, any number of times.
Init ==
    /\ conversation \in Conversations
    /\ AgentIdle
    /\ ProgramSpaceEmpty

Next ==
    \/ \E h \in Heuristics : AskUserAgent_init(h)
    \/ GoalAgent_init
    \/ \E c \in Contexts : ContextValidator_init(c)
    \/ \E c \in Contexts : SynthesizingAgent_init(c)
    \/ OODAPlanAgent_init
    \/ \E t \in Tasks, c \in Completions : AskUserAgent_execute(t, c)
    \/ \E t \in Tasks, c \in Completions : GoalAgent_execute(t, c)
    \/ \E t \in Tasks, c \in Completions : ContextValidator_execute(t, c)
    \/ \E t \in Tasks, c \in Completions : SynthesizingAgent_execute(t, c)
    \/ \E t \in Tasks, c \in Completions : OODAPlanAgent_execute(t, c)

Spec == Init /\ [][Next]_vars

\* The program space: any sequence of upserts and searches on a new space.
InitProgramSpace ==
    /\ conversation = <<>>
    /\ AgentIdle
    /\ ProgramSpaceEmpty

NextProgramSpace ==
    \/ \E n \in Names, d \in Descriptions, p \in Programs : add_or_update_program(n, d, p)
    \/ \E k \in KnowledgeArgs, r \in ResourceArgs, m \in Responses : find_program(k, r, m)

SpecProgramSpace == InitProgramSpace /\ [][NextProgramSpace]_vars

(***************************************************************************)
(* Properties of the task agents (checked under Spec).                     *)
(***************************************************************************)
Called == executes > 0
AskedLM == executes > 0 /\ lm_calls = 1
InvalidJson == ~JsonLoads(json_str).ok
NotAnObject == ~JsonLoads(json_str).ok \/ JsonLoads(json_str).val.type # "object"

\* The newest m messages of c, in their order.
Newest(c, m) == [i \in 1..m |-> c[Len(c) - m + i]]
\* All but the last message of w, in their order.
AllButLast(w) == [i \in 1..(Len(w) - 1) |-> w[i]]

\* C1: when the completion fails JSON parsing, GoalAgent.execute returns the
\* content of the last message of the original conversation given to the
\* constructor, for every non-empty conversation and every task.
C1_GoalFallbackIsLastOriginalMessage ==
    (agent = "GoalAgent" /\ AskedLM /\ InvalidJson /\ Len(conversation) > 0)
        => result = Return(PyStr(conversation[Len(conversation)].content))

\* C2: for every completion that is not a JSON object (no JSON at all, or a JSON
\* array, string, number or null), execute of every variant returns and never
\* raises.
C2_NonConformingCompletionNeverRaises ==
    (AskedLM /\ NotAnObject) => result.tag = "return"

\* C3: when the completion is no JSON, no variant's execute raises; AskUser
\* returns empty text, and ContextValidator, Synthesizer and OODAPlanner return
\* an empty mapping, for every task and every conversation, the empty one too.
C3_InvalidJsonFallback ==
    (AskedLM /\ InvalidJson) =>
        /\ result.tag = "return"
        /\ agent = "AskUserAgent" => result.val = EmptyText
        /\ agent \in {"ContextValidator", "SynthesizingAgent", "OODAPlanAgent"}
              => result.val = EmptyMapping

C3_Witness ==
    /\ agent = "OODAPlanAgent"
    /\ AskedLM
    /\ json_str = <<"o", "o", "p", "s">>
    /\ conversation = <<>>
    /\ result = Return(EmptyMapping)

\* C4: with L the length of the conversation and K = 10, AskUser, Goal and
\* OODAPlanner hold its last min(L, K) messages in their order (all of it when
\* L < K); ContextValidator and Synthesizer hold those messages without the
\* newest one, in their order.
C4_Window ==
    LET w == Newest(conversation, Min(Len(conversation), WindowSize))
    IN /\ agent \in {"AskUserAgent", "GoalAgent", "OODAPlanAgent"}
            => self_conversation = w
       /\ agent \in {"ContextValidator", "SynthesizingAgent"}
            => self_conversation = AllButLast(w)

C4_Witness ==
    /\ agent = "ContextValidator"
    /\ Len(conversation) = WindowSize + 2
    /\ Len(self_conversation) = WindowSize - 1
    /\ self_conversation[1] = conversation[3]
    /\ self_conversation[WindowSize - 1] = conversation[WindowSize + 1]

C10_ExecuteLeavesConversations ==
    /\ [][/\ conversation' = conversation
          /\ agent # "none" => self_conversation' = self_conversation]_vars
    /\ [](AskedLM =>
            /\ Len(messages) = Len(self_conversation) + 1
            /\ SubSeq(messages, 1, Len(self_conversation)) = self_conversation
            /\ messages[Len(messages)].role = SYSTEM)

C10_Witness ==
    /\ agent = "SynthesizingAgent"
    /\ executes >= 2
    /\ lm_calls = 1
    /\ Len(conversation) = WindowSize + 2
    /\ Len(messages) = WindowSize
    /\ messages[Len(messages)].role = SYSTEM

(***************************************************************************)
(* Properties of the program space (checked under SpecProgramSpace).       *)
(***************************************************************************)
Searched == last_op = "find_program"
Responded == last_op = "find_program" /\ ps_lm_calls = 1
ReturnedNoMatch == found.tag = "return" /\ found.none

\* C6: find_program returns no match if and only if the LM response begins with
\* NONE, for every registry reached by upserts and every response, also one
\* that names no registered program.
C6_NoMatchIffNonePrefix ==
    Responded => (ReturnedNoMatch <=> StartsWith(matching_program_name, NONE))

C6_Witness ==
    /\ Responded
    /\ DOMAIN programs = Names
    /\ matching_program_name = NONE \o <<" ", "-">>
    /\ found = ReturnNone

\* C7 as stated: when the response is exactly a registered name, find_program
\* returns the Program registered under it, for every name text, also a name
\* that begins with NONE.
C7_RegisteredNameReturnsItsProgram ==
    (Responded /\ matching_program_name \in DOMAIN programs)
        => found = ReturnProgram(programs[matching_program_name])

\* C7 amended: when the response is exactly a registered name that does not
\* begin with NONE, find_program returns the Program registered under it.
C7_RegisteredNameWithoutNonePrefix ==
    (/\ Responded
     /\ matching_program_name \in DOMAIN programs
     /\ ~StartsWith(matching_program_name, NONE))
        => found = ReturnProgram(programs[matching_program_name])

C7_Witness ==
    /\ Responded
    /\ DOMAIN programs = Names
    /\ matching_program_name = <<"x", "N", "O", "N", "E">>
    /\ programs[matching_program_name] = "P2"
    /\ programs[<<"a">>] = "P1"
    /\ found = ReturnProgram("P2")

\* C8: find_program called without resources renders the prompt with an empty
\* resource-overview mapping, makes its one LM invocation and returns a Program
\* or no match; it does not fail before the LM is reached.
C8_OmittedResourcesReachTheLM ==
    (Searched /\ call_resources.none) =>
        /\ ps_lm_calls = 1
        /\ found.tag = "return"
        /\ resource_overviews = <<>>

\* C9: from an empty space, after any upserts and searches the two mappings
\* have the same keys and hold, for every name, the description and program of
\* the latest upsert of that name; a search, and an upsert that repeats the
\* stored entry, change neither mapping.
C9_RegistriesLastWriteWins ==
    /\ [](/\ DOMAIN descriptions = DOMAIN programs
          /\ DOMAIN programs = DOMAIN latest
          /\ \A n \in DOMAIN latest :
                /\ descriptions[n] = latest[n].description
                /\ programs[n] = latest[n].program)
    /\ [][(last_op' = "find_program" \/ latest' = latest)
            => (descriptions' = descriptions /\ programs' = programs)]_vars

C9_Witness ==
    /\ Searched
    /\ DOMAIN programs = Names
    /\ DOMAIN descriptions = Names
    /\ descriptions[<<"a">>] = "d1"
    /\ programs[<<"a">>] = "P2"
    /\ latest[<<"a">>] = [description |-> "d1", program |-> "P2"]

====
